---- MODULE Spec2Model ----
(***************************************************************************)
(* Model of src/src/main.rs: a process that reads DATABASE_URL, builds a   *)
(* bb8 connection pool, binds 127.0.0.1:3000 and serves POST /user/create. *)
(* Each request runs the DatabaseConnection extractor (pool.get_owned),    *)
(* then the Json<NewUser> extractor, then one insert ... returning, whose  *)
(* result is unwrapped.  The pool, the database and the HTTP server are    *)
(* collaborators; they are modelled through the calls the source makes on  *)
(* them.  The handler names its first argument State<DatabaseConnection>;  *)
(* the model gives it the connection that from_request_parts acquires.     *)
(***************************************************************************)
EXTENDS Integers, FiniteSets, Sequences, TLC

\* ---------------------------------------------------------------- bounds
NumReqs == 3        \* requests the clients send during one run
PoolSize == 2       \* connections the pool may have out at once

Reqs == 1..NumReqs
Conns == 1..PoolSize

\* ------------------------------------------------------------ data model
\* Option<String>
None == [some |-> FALSE]
Some(s) == [some |-> TRUE, val |-> s]

\* JSON values of the request and response bodies
JAbsent == <<"absent">>
JNull == <<"null">>
JStr(s) == <<"str", s>>
JInt(i) == <<"int", i>>

\* http::StatusCode values that occur
OK == 200
UNPROCESSABLE_ENTITY == 422
INTERNAL_SERVER_ERROR == 500
NoStatus == 0

\* request bodies the clients send: {"name": ..., "hair_color": ...}
Bodies ==
    { [name |-> JStr("Alice"), hair_color |-> JStr("brown")],
      [name |-> JStr("Bob"),   hair_color |-> JNull],
      [name |-> JNull,         hair_color |-> JAbsent] }

NoBody == [name |-> JAbsent, hair_color |-> JAbsent]

\* errors of pool.get_owned(): bb8::RunError<PoolError>
PoolErrors == {"TimedOut", "User"}

\* the users table when the process starts: it exists and has a row whose id
\* the sequence has not reached
InitialTables ==
    { {[id |-> 2, name |-> "Zed", hair_color |-> None]} }

NoResponse == [status |-> NoStatus, body |-> <<>>]

VARIABLES
    mainPc,     \* position of main()
    envSet,     \* DATABASE_URL is present in the environment
    poolBuilt,  \* the bb8 pool exists
    appState,   \* AppState{pool, meilisearch_client} exists
    bound,      \* the listening address is bound
    idle,       \* connections the pool can hand out
    leased,     \* <<connection, request>>: handles out of the pool
    pc,         \* position of each request's task
    body,       \* the JSON body of each request being handled
    attempts,   \* calls of pool.get_owned() made for each request
    outcome,    \* how each request ended
    resp,       \* the HTTP response written for each request
    users,      \* the users table
    seq         \* last value of the id sequence of the users table

vars == <<mainPc, envSet, poolBuilt, appState, bound, idle, leased,
          pc, body, attempts, outcome, resp, users, seq>>

mainVars == <<mainPc, envSet, poolBuilt, appState, bound>>
reqVars == <<pc, body, attempts, outcome, resp>>
poolVars == <<idle, leased>>
dbVars == <<users, seq>>

\* ------------------------------------------------------------- helpers
Held(r) == {c \in Conns : <<c, r>> \in leased}
LeasedConns == {p[1] : p \in leased}
InFlight(r) == pc[r] \in {"acquiring", "body", "inserting"}
AvailCount == Cardinality(idle)
Ids(t) == {u.id : u \in t}

\* err.to_string(): Display of bb8::RunError<PoolError>; TimedOut has bb8's
\* fixed text, User(e) the text of the connection error
ErrToString(e) ==
    CASE e = "TimedOut" -> "Timed out in bb8"
      [] e = "User" -> "connection to server failed"

\* mutant: the error is mapped to a success status
internal_error_ok(e) == [status |-> OK, body |-> ErrToString(e)]

\* internal_error: (StatusCode::INTERNAL_SERVER_ERROR, err.to_string())
internal_error(e) == [status |-> INTERNAL_SERVER_ERROR, body |-> ErrToString(e)]

\* serde: Deserialize for NewUser {name: String, hair_color: Option<String>}
DeserializeOk(b) == b.name[1] = "str" /\ b.hair_color[1] \in {"str", "null", "absent"}

\* mutant: hair_color is skipped when deserializing
DeserializeSkipHair(b) == [name |-> b.name[2], hair_color |-> None]

Deserialize(b) ==
    [name |-> b.name[2],
     hair_color |-> IF b.hair_color[1] = "str" THEN Some(b.hair_color[2]) ELSE None]

\* serde: Serialize for User {id, name, hair_color}
Serialize(u) ==
    [id |-> JInt(u.id),
     name |-> JStr(u.name),
     hair_color |-> IF u.hair_color.some THEN JStr(u.hair_color.val) ELSE JNull]

\* mutant: the handle's slot is not given back to the pool
DropConnLost(r) ==
    /\ leased' = {p \in leased : p[2] # r}
    /\ idle' = idle

\* the end of the scope of the PooledConnection: bb8 puts it back
DropConn(r) ==
    /\ leased' = {p \in leased : p[2] # r}
    /\ idle' = idle \cup Held(r)

\* mutant: the task ends and its connection handle stays alive
FinishKeepConn(r, how, response) ==
    /\ pc' = [pc EXCEPT ![r] = "done"]
    /\ outcome' = [outcome EXCEPT ![r] = how]
    /\ resp' = [resp EXCEPT ![r] = response]
    /\ body' = [body EXCEPT ![r] = NoBody]
    /\ UNCHANGED <<idle, leased>>

\* the request's task ends
Finish(r, how, response) ==
    /\ pc' = [pc EXCEPT ![r] = "done"]
    /\ outcome' = [outcome EXCEPT ![r] = how]
    /\ resp' = [resp EXCEPT ![r] = response]
    /\ body' = [body EXCEPT ![r] = NoBody]
    /\ DropConn(r)

\* ---------------------------------------------------------------- Init
Init ==
    /\ mainPc = "env"
    /\ envSet \in BOOLEAN
    /\ poolBuilt = FALSE
    /\ appState = FALSE
    /\ bound = FALSE
    /\ idle = {}
    /\ leased = {}
    /\ pc = [r \in Reqs |-> "idle"]
    /\ body = [r \in Reqs |-> NoBody]
    /\ attempts = [r \in Reqs |-> 0]
    /\ outcome = [r \in Reqs |-> "none"]
    /\ resp = [r \in Reqs |-> NoResponse]
    /\ users \in InitialTables
    /\ seq = 0

\* ---------------------------------------------------------------- main
\* mutant: a missing DATABASE_URL falls back to a default url
ReadEnvOrDefault ==
    /\ mainPc = "env"
    /\ mainPc' = "build"
    /\ UNCHANGED <<envSet, poolBuilt, appState, bound, poolVars, reqVars, dbVars>>

\* std::env::var("DATABASE_URL").unwrap()
ReadEnv ==
    /\ mainPc = "env"
    /\ envSet
    /\ mainPc' = "build"
    /\ UNCHANGED <<envSet, poolBuilt, appState, bound, poolVars, reqVars, dbVars>>

ReadEnvPanic ==
    /\ mainPc = "env"
    /\ ~envSet
    /\ mainPc' = "abort_env"
    /\ UNCHANGED <<envSet, poolBuilt, appState, bound, poolVars, reqVars, dbVars>>

\* bb8::Pool::builder().build(config).await.unwrap()
BuildPoolOk ==
    /\ mainPc = "build"
    /\ poolBuilt' = TRUE
    /\ idle' = Conns
    /\ mainPc' = "router"
    /\ UNCHANGED <<envSet, appState, bound, leased, reqVars, dbVars>>

BuildPoolPanic ==
    /\ mainPc = "build"
    /\ mainPc' = "abort_pool"
    /\ UNCHANGED <<envSet, poolBuilt, appState, bound, poolVars, reqVars, dbVars>>

\* Router::new().route(..).with_state(AppState{pool, meilisearch_client})
BuildRouter ==
    /\ mainPc = "router"
    /\ appState' = TRUE
    /\ mainPc' = "bind"
    /\ UNCHANGED <<envSet, poolBuilt, bound, poolVars, reqVars, dbVars>>

\* axum::Server::bind(&addr).serve(..)
BindOk ==
    /\ mainPc = "bind"
    /\ bound' = TRUE
    /\ mainPc' = "serving"
    /\ UNCHANGED <<envSet, poolBuilt, appState, poolVars, reqVars, dbVars>>

BindPanic ==
    /\ mainPc = "bind"
    /\ mainPc' = "abort_bind"
    /\ UNCHANGED <<envSet, poolBuilt, appState, bound, poolVars, reqVars, dbVars>>

\* ------------------------------------------------------------ requests
\* the router dispatches POST /user/create; the handler's first argument is
\* the DatabaseConnection, which from_request_parts makes by calling
\* pool.get_owned() once
Arrive(r, b) ==
    /\ mainPc = "serving"
    /\ pc[r] = "idle"
    /\ IF r = 1 THEN TRUE ELSE pc[r - 1] # "idle"
    /\ pc' = [pc EXCEPT ![r] = "acquiring"]
    /\ body' = [body EXCEPT ![r] = b]
    /\ attempts' = [attempts EXCEPT ![r] = @ + 1]
    /\ UNCHANGED <<mainVars, poolVars, outcome, resp, dbVars>>

\* mutant: the pool hands out a connection that may be out already
AcquireOkAny(r, c) ==
    /\ pc[r] = "acquiring"
    /\ idle' = idle \ {c}
    /\ leased' = leased \cup {<<c, r>>}
    /\ pc' = [pc EXCEPT ![r] = "body"]
    /\ UNCHANGED <<mainVars, body, attempts, outcome, resp, dbVars>>

\* pool.get_owned().await is Ok(conn)
AcquireOk(r, c) ==
    /\ pc[r] = "acquiring"
    /\ c \in idle
    /\ idle' = idle \ {c}
    /\ leased' = leased \cup {<<c, r>>}
    /\ pc' = [pc EXCEPT ![r] = "body"]
    /\ UNCHANGED <<mainVars, body, attempts, outcome, resp, dbVars>>

\* pool.get_owned().await is Err(e): .map_err(internal_error)?
AcquireErr(r, e) ==
    /\ pc[r] = "acquiring"
    /\ Finish(r, "acquire_failed", internal_error(e))
    /\ UNCHANGED <<mainVars, attempts, dbVars>>

\* Json(new_user): Json<NewUser>, the last extractor: it runs with the
\* connection already held
ParseOk(r) ==
    /\ pc[r] = "body"
    /\ DeserializeOk(body[r])
    /\ pc' = [pc EXCEPT ![r] = "inserting"]
    /\ UNCHANGED <<mainVars, poolVars, body, attempts, outcome, resp, dbVars>>

ParseReject(r) ==
    /\ pc[r] = "body"
    /\ ~DeserializeOk(body[r])
    /\ Finish(r, "body_rejected",
              [status |-> UNPROCESSABLE_ENTITY,
               body |-> "Failed to deserialize the JSON body into the target type"])
    /\ UNCHANGED <<mainVars, attempts, dbVars>>

\* mutant: the success path keeps the connection handle alive
InsertOkLeak(r) ==
    LET id == seq + 1
        row == [id |-> id] @@ Deserialize(body[r])
    IN  /\ pc[r] = "inserting"
        /\ Held(r) # {}
        /\ id \notin Ids(users)
        /\ users' = users \cup {row}
        /\ seq' = id
        /\ FinishKeepConn(r, "ok", [status |-> OK, body |-> Serialize(row)])
        /\ UNCHANGED <<mainVars, attempts>>

\* insert_into(users).values(new_user).returning(..).get_result(&mut conn) is Ok
InsertOk(r) ==
    LET id == seq + 1
        row == [id |-> id] @@ Deserialize(body[r])
    IN  /\ pc[r] = "inserting"
            /\ Held(r) # {}
        /\ id \notin Ids(users)
        /\ users' = users \cup {row}
        /\ seq' = id
        /\ Finish(r, "ok", [status |-> OK, body |-> Serialize(row)])
        /\ UNCHANGED <<mainVars, attempts>>

\* mutant: a taken primary key overwrites the row that has it
InsertUpsert(r) ==
    LET id == seq + 1
        row == [id |-> id] @@ Deserialize(body[r])
    IN  /\ pc[r] = "inserting"
        /\ id \in Ids(users)
        /\ users' = {u \in users : u.id # id} \cup {row}
        /\ seq' = id
        /\ Finish(r, "ok", [status |-> OK, body |-> Serialize(row)])
        /\ UNCHANGED <<mainVars, attempts>>

\* get_result is Err: the id the sequence gives is taken by a row (the sequence
\* keeps the value it gave); .unwrap() panics
InsertConflict(r) ==
    /\ pc[r] = "inserting"
    /\ (seq + 1) \in Ids(users)
    /\ seq' = seq + 1
    /\ Finish(r, "panicked", NoResponse)
    /\ UNCHANGED <<mainVars, attempts, users>>

\* mutant: the database error is mapped to a 500 response
InsertErrRespond(r) ==
    /\ pc[r] = "inserting"
    /\ Finish(r, "insert_failed", internal_error("User"))
    /\ UNCHANGED <<mainVars, attempts, dbVars>>

\* get_result is Err: any other database error; .unwrap() panics
InsertErr(r) ==
    /\ pc[r] = "inserting"
    /\ Finish(r, "panicked", NoResponse)
    /\ UNCHANGED <<mainVars, attempts, dbVars>>

\* mutant: the future is dropped and its connection handle stays alive
CancelLeak(r) ==
    /\ InFlight(r)
    /\ FinishKeepConn(r, IF pc[r] = "acquiring" THEN "dropped_waiting" ELSE "dropped_holding",
                      NoResponse)
    /\ UNCHANGED <<mainVars, attempts, dbVars>>

\* the client disconnects: hyper drops the request's future
Cancel(r) ==
    /\ InFlight(r)
    /\ Finish(r, IF pc[r] = "acquiring" THEN "dropped_waiting" ELSE "dropped_holding",
              NoResponse)
    /\ UNCHANGED <<mainVars, attempts, dbVars>>

Next ==
    \/ ReadEnv
    \/ ReadEnvPanic
    \/ BuildPoolOk
    \/ BuildPoolPanic
    \/ BuildRouter
    \/ BindOk
    \/ BindPanic
    \/ \E r \in Reqs, b \in Bodies : Arrive(r, b)
    \/ \E r \in Reqs, c \in Conns : AcquireOk(r, c)
    \/ \E r \in Reqs, e \in PoolErrors : AcquireErr(r, e)
    \/ \E r \in Reqs : ParseOk(r)
    \/ \E r \in Reqs : ParseReject(r)
    \/ \E r \in Reqs : InsertOk(r)
    \/ \E r \in Reqs : InsertConflict(r)
    \/ \E r \in Reqs : InsertErr(r)
    \/ \E r \in Reqs : Cancel(r)

Spec == Init /\ [][Next]_vars

\* the steps of request r that the runtime and the pool bring about: a waiting
\* get_owned() is served when a connection is available, and a task that
\* holds a connection runs its body extraction and its insert to their end
Progress(r) ==
    \/ \E c \in Conns : AcquireOk(r, c)
    \/ ParseOk(r)
    \/ ParseReject(r)
    \/ InsertOk(r)
    \/ InsertConflict(r)
    \/ InsertErr(r)

FairSpec == Spec /\ \A r \in Reqs : WF_vars(Progress(r))

\* ---------------------------------------------------------------- claims
Ended(r, how) == pc[r] = "done" /\ outcome[r] = how
Completes(r) == InFlight(r) /\ pc'[r] = "done"
Quiescent == poolBuilt /\ \A r \in Reqs : ~InFlight(r)

C3_Step ==
    \A r \in Reqs :
        /\ (pc[r] = "acquiring" /\ pc'[r] = "body") => AvailCount' = AvailCount - 1
        /\ Completes(r) =>
              AvailCount' = AvailCount + (IF pc[r] = "acquiring" THEN 0 ELSE 1)

C3_State ==
    /\ Quiescent => AvailCount = PoolSize
    /\ poolBuilt =>
          AvailCount = PoolSize - Cardinality({r \in Reqs : InFlight(r) /\ Held(r) # {}})

C4_Step ==
    \A r \in Reqs :
        (pc[r] = "acquiring" /\ outcome'[r] = "acquire_failed") =>
            /\ mainPc' = "serving"
            /\ \A q \in Reqs \ {r} :
                /\ pc'[q] = pc[q]
                /\ outcome'[q] = outcome[q]
                /\ resp'[q] = resp[q]
            /\ idle' = idle
            /\ leased' = leased

C4_State ==
    \A r \in Reqs :
        Ended(r, "acquire_failed") =>
            /\ resp[r].status = INTERNAL_SERVER_ERROR
            /\ resp[r].body \in {ErrToString(e) : e \in PoolErrors}
            /\ resp[r].body # ""
            /\ attempts[r] = 1
            /\ mainPc = "serving"

SubmittedHair(b) == IF b.hair_color = JAbsent THEN JNull ELSE b.hair_color

C5_Step ==
    \A r \in Reqs :
        (pc[r] = "inserting" /\ outcome'[r] = "ok") =>
            /\ resp'[r].status = OK
            /\ resp'[r].body.name = body[r].name
            /\ resp'[r].body.hair_color = SubmittedHair(body[r])
            /\ resp'[r].body.id[1] = "int"
            /\ resp'[r].body.id[2] \notin Ids(users)
            /\ \E u \in users' \ users :
                /\ u.id = resp'[r].body.id[2]
                /\ JStr(u.name) = body[r].name
                /\ u.hair_color = (IF body[r].hair_color[1] = "str"
                                   THEN Some(body[r].hair_color[2]) ELSE None)

C5_DistinctIds ==
    \A r, q \in Reqs :
        (r # q /\ Ended(r, "ok") /\ Ended(q, "ok")) =>
            resp[r].body.id # resp[q].body.id

C5_InsertReturnsSubmittedValues == [](C5_DistinctIds) /\ [][C5_Step]_vars

C5_Witness ==
    \E r, q \in Reqs :
        /\ Ended(r, "ok") /\ Ended(q, "ok")
        /\ resp[r].body.hair_color = JStr("brown")
        /\ resp[q].body.hair_color = JNull
        /\ \E u \in users : JInt(u.id) = resp[q].body.id /\ u.hair_color = None

\* C6: a failed insert never produces a response: the task ends by panic with
\* nothing written, the step changes no other request, and the server goes on
\* serving.
InsertFails(r) ==
    /\ pc[r] = "inserting"
    /\ pc'[r] = "done"
    /\ users' = users
    /\ outcome'[r] # "dropped_holding"

C6_Step ==
    \A r \in Reqs :
        InsertFails(r) =>
            /\ outcome'[r] = "panicked"
            /\ resp'[r].status = NoStatus
            /\ mainPc' = "serving"
            /\ \A q \in Reqs \ {r} :
                /\ pc'[q] = pc[q]
                /\ outcome'[q] = outcome[q]
                /\ resp'[q] = resp[q]
                /\ Held(q)' = Held(q)

C6_State ==
    \A r \in Reqs :
        Ended(r, "panicked") => resp[r].status = NoStatus /\ mainPc = "serving"

C6_InsertFailureAbortsTask == [](C6_State) /\ [][C6_Step]_vars

C6_Witness ==
    \E r, q, w \in Reqs :
        /\ r < q
        /\ Ended(r, "panicked")
        /\ resp[r] = NoResponse
        /\ Ended(q, "ok")
        /\ pc[w] = "inserting"

\* C7: a task dropped while it waits for a connection or while it holds one
\* keeps no connection: the connection it held is available again, and with
\* no request left in flight the available count is the pool's size.
C7_Step ==
    \A r \in Reqs :
        (InFlight(r) /\ outcome'[r] \in {"dropped_waiting", "dropped_holding"}) =>
            /\ Held(r)' = {}
            /\ idle' = idle \cup Held(r)
            /\ pc[r] = "acquiring" => idle' = idle
            /\ pc[r] = "inserting" => AvailCount' = AvailCount + 1

C7_State ==
    \A r \in Reqs :
        (Ended(r, "dropped_waiting") \/ Ended(r, "dropped_holding")) =>
            /\ Held(r) = {}
            /\ (\A q \in Reqs : Held(q) = {}) => AvailCount = PoolSize

NothingServed ==
    /\ ~bound
    /\ ~poolBuilt
    /\ ~appState
    /\ idle = {} /\ leased = {}
    /\ \A r \in Reqs : pc[r] = "idle" /\ attempts[r] = 0 /\ resp[r] = NoResponse

C8_State ==
    /\ ~envSet => (NothingServed /\ mainPc \in {"env", "abort_env"})
    /\ mainPc \in {"abort_env", "abort_pool"} => NothingServed
    /\ (\E r \in Reqs : pc[r] # "idle") => (bound /\ envSet /\ poolBuilt)

C8_Step == mainPc \in {"abort_env", "abort_pool"} => mainPc' = mainPc

C8_StartupFailureNeverServes == [](C8_State) /\ [][C8_Step]_vars

C8_Witness == mainPc = "abort_env" /\ ~envSet /\ ~bound

\* C9: the users table changes only by one new row per successful insert,
\* made by a request that holds a connection; rows are never changed or
\* removed, and a request that ends without a successful insert leaves the
\* table as it was.
C9_Step ==
    /\ users \subseteq users'
    /\ users' # users =>
          \E r \in Reqs :
              /\ pc[r] = "inserting"
              /\ Held(r) # {}
              /\ outcome'[r] = "ok"
              /\ Cardinality(users' \ users) = 1
    /\ \A r \in Reqs : (Completes(r) /\ outcome'[r] # "ok") => users' = users

C9_State == \A r \in Reqs : pc[r] = "inserting" => Cardinality(Held(r)) = 1

C9_TableOnlyGrowsByInserts == [](C9_State) /\ [][C9_Step]_vars

C9_Witness ==
    /\ \E r \in Reqs : Ended(r, "ok")
    /\ \E r \in Reqs : Ended(r, "body_rejected")
    /\ \E r \in Reqs : Ended(r, "panicked")
    /\ \E u \in users : u.id = 2 /\ u.name = "Zed"
    /\ Cardinality(users) = 2

\* C10: a request that waits for a connection holds none, so it keeps nothing
\* from the others; and under FairSpec, whatever has happened, a moment comes
\* when no request is in flight: every request that waits for a connection
\* gets one or is failed or dropped, and every request in flight completes.
C10_WaitingHoldsNothing == \A r \in Reqs : pc[r] = "acquiring" => Held(r) = {}

====
